---- MODULE Spec2Model ----
(***************************************************************************)
(* Model of segment_processor/main.py, function graph_to_segments: the     *)
(* loop that turns every edge of a road graph into line features, one per  *)
(* ward the edge intersects, with the postcodes found near each feature.   *)
(*                                                                         *)
(* Geometry is exact on an integer lattice.  Coordinates are whole         *)
(* degrees.  A ward polygon is a union of closed unit cells; a line is a   *)
(* polyline whose vertices are lattice points and whose legs are           *)
(* horizontal, vertical or at 45 degrees.  Such a line decomposes into     *)
(* unit "atoms" (one lattice step each): an axis-parallel atom lies on the *)
(* common border of two cells, a diagonal atom in the interior of one      *)
(* cell, so "atom inside the closed polygon" and "point inside the closed  *)
(* polygon" are decided by cell membership alone, and the intersection of  *)
(* a line with a polygon is the set of atoms inside it plus the isolated   *)
(* lattice points where the line merely touches it.                        *)
(***************************************************************************)
EXTENDS Integers, Sequences, FiniteSets, TLC

\* ---------------------------------------------------------------- bounds
MaxEdges == 2         \* the graph has at most MaxEdges edges
MaxBufferUnits == 1   \* buffer_meters is 0..MaxBufferUnits times 111000

\* the lattice: cells in two columns (west, east) and one row
Columns == { 0, 1 }
Rows == { 0 }
GridW == Cardinality(Columns)
GridH == Cardinality(Rows)

\* buffer_degrees = buffer_meters / 111000
MetersPerDegree == 111000

\* ------------------------------------------------------------ arithmetic
Abs(n) == IF n < 0 THEN -n ELSE n
Sgn(n) == IF n < 0 THEN -1 ELSE IF n > 0 THEN 1 ELSE 0
Max(a, b) == IF a >= b THEN a ELSE b
Min(a, b) == IF a <= b THEN a ELSE b
SetMin(S) == CHOOSE m \in S : \A n \in S : m <= n
SetMax(S) == CHOOSE m \in S : \A n \in S : m >= n

RECURSIVE SortedSeq(_)
\* sorted(set(...)): the members of a finite set of integers, ascending
SortedSeq(S) ==
  IF S = {} THEN << >>
  ELSE LET m == SetMin(S) IN << m >> \o SortedSeq(S \ {m})

Range(s) == { s[i] : i \in DOMAIN s }

\* --------------------------------------------------------------- lattice
Points == (0..GridW) \X (0..GridH)
Cells == Columns \X Rows

\* the closed unit cells a lattice point belongs to
PointCells(p) ==
  { << p[1], p[2] >>, << p[1] - 1, p[2] >>,
    << p[1], p[2] - 1 >>, << p[1] - 1, p[2] - 1 >> }

\* the closed unit cells that contain the whole atom from p to q
AtomCells(p, q) ==
  LET mx == Min(p[1], q[1])
      my == Min(p[2], q[2])
  IN IF p[1] # q[1] /\ p[2] # q[2] THEN { << mx, my >> }
     ELSE IF p[2] = q[2] THEN { << mx, my >>, << mx, my - 1 >> }
     ELSE { << mx, my >>, << mx - 1, my >> }

\* the lattice points of the leg from p to q, both ends included
SegPoints(p, q) ==
  LET dx == q[1] - p[1]
      dy == q[2] - p[2]
      n == Max(Abs(dx), Abs(dy))
  IN [ k \in 1..(n + 1) |-> << p[1] + (k - 1) * Sgn(dx), p[2] + (k - 1) * Sgn(dy) >> ]

RECURSIVE Densify(_)
\* the lattice points a coordinate list passes through, in order
Densify(coords) ==
  IF Len(coords) <= 1 THEN coords
  ELSE Densify(SubSeq(coords, 1, Len(coords) - 1))
         \o Tail(SegPoints(coords[Len(coords) - 1], coords[Len(coords)]))

RECURSIVE VertexIndex(_, _)
\* position in Densify(coords) of the j-th coordinate of coords
VertexIndex(coords, j) ==
  IF j = 1 THEN 1
  ELSE VertexIndex(coords, j - 1)
         + Max(Abs(coords[j][1] - coords[j - 1][1]), Abs(coords[j][2] - coords[j - 1][2]))

\* the atoms of a coordinate list, each as the set of its two end points
Atoms(coords) ==
  LET d == Densify(coords)
  IN { { d[k], d[k + 1] } : k \in 1..(Len(d) - 1) }

AtomInCells(a, cells) ==
  \E p \in a : \E q \in a : p # q /\ AtomCells(p, q) \cap cells # {}

\* ------------------------------------------------- geometry (shapely)
\* LineString(coords): a line keeps the coordinate list it was built from
LineString(coords) == [ geom_type |-> "LineString", coords |-> coords ]

\* a ward polygon (possibly multi-part): the union of its closed cells.  An
\* invalid polygon (a ring that crosses itself) covers the same cells, but
\* overlaying a line on it raises.
Polygon(cells, valid) == [ geom_type |-> "Polygon", cells |-> cells, is_valid |-> valid ]

PointInPolygon(p, poly) == PointCells(p) \cap poly.cells # {}

\* polygon.intersects(line): some point of the line is in the closed polygon
Intersects(poly, line) ==
  \E p \in Range(Densify(line.coords)) : PointInPolygon(p, poly)

\* line.length, as [ax, dg] standing for ax + dg * sqrt(2)
LineLength(line) ==
  LET d == Densify(line.coords)
      K == 1..(Len(d) - 1)
  IN [ ax |-> Cardinality({ k \in K : d[k][1] = d[k + 1][1] \/ d[k][2] = d[k + 1][2] }),
       dg |-> Cardinality({ k \in K : d[k][1] # d[k + 1][1] /\ d[k][2] # d[k + 1][2] }) ]

\* line.length > 0
PositiveLength(line) == LineLength(line).ax + LineLength(line).dg > 0

\* line.intersection(poly).  The atoms of the line inside the polygon form
\* maximal runs, each one connected LineString; lattice points of the line
\* that are in the polygon but on no such atom are isolated Points.  GEOS
\* returns the bare LineString or Point when there is just one component, a
\* Multi* for several of one kind and a GeometryCollection for a mix.
Intersection(line, poly) ==
  LET d == Densify(line.coords)
      m == Len(d)
      in(k) == k \in 1..(m - 1) /\ AtomCells(d[k], d[k + 1]) \cap poly.cells # {}
      starts == { k \in 1..(m - 1) : in(k) /\ ~ in(k - 1) }
      stop(s) == SetMin({ j \in (s + 1)..m : ~ in(j) })
      touch == { k \in 1..m : PointInPolygon(d[k], poly) /\ ~ in(k) /\ ~ in(k - 1) }
      inner(s) == { j \in 1..Len(line.coords) :
                      /\ VertexIndex(line.coords, j) > s
                      /\ VertexIndex(line.coords, j) < stop(s) }
      part(s) ==
        LET js == SortedSeq(inner(s))
        IN LineString(<< d[s] >> \o [ i \in 1..Len(js) |-> line.coords[js[i]] ]
                        \o << d[stop(s)] >>)
      ss == SortedSeq(starts)
      lines == [ i \in 1..Len(ss) |-> part(ss[i]) ]
      nl == Cardinality(starts)
      np == Cardinality({ d[k] : k \in touch })
  IN [ geom_type |-> IF nl = 0 /\ np = 0 THEN "GeometryCollection"
                     ELSE IF np = 0 THEN (IF nl = 1 THEN "LineString" ELSE "MultiLineString")
                     ELSE IF nl = 0 THEN (IF np = 1 THEN "Point" ELSE "MultiPoint")
                     ELSE "GeometryCollection",
       is_empty |-> nl = 0 /\ np = 0,
       geoms |-> lines,
       points |-> { d[k] : k \in touch } ]

\* geom.buffer(r).  Only the bounds of the result are used by the index
\* query.  For r > 0 the bounds are the line's bounds widened by r on every
\* side; a line buffered by 0 (or less) is an empty polygon.
Buffer(line, r) ==
  LET d == Densify(line.coords)
      xs == { d[k][1] : k \in DOMAIN d }
      ys == { d[k][2] : k \in DOMAIN d }
  IN IF r <= 0
     THEN [ geom_type |-> "Polygon", is_empty |-> TRUE, bounds |-> << 0, 0, 0, 0 >> ]
     ELSE [ geom_type |-> "Polygon", is_empty |-> FALSE,
            bounds |-> << SetMin(xs) - r, SetMin(ys) - r, SetMax(xs) + r, SetMax(ys) + r >> ]

\* STRtree(points): the indexed points, in input order
STRtree(points) == points

\* tree.query(geom) without a predicate: the indices of the tree geometries
\* whose bounding box intersects the bounding box of geom; an empty geom
\* matches nothing
TreeQuery(tree, geom) ==
  IF geom.is_empty THEN {}
  ELSE { i \in DOMAIN tree :
           /\ geom.bounds[1] <= tree[i][1] /\ tree[i][1] <= geom.bounds[3]
           /\ geom.bounds[2] <= tree[i][2] /\ tree[i][2] <= geom.bounds[4] }

\* ---------------------------------------------------------------- inputs
\* graph.nodes: one node on every lattice point, numbered row by row
NumNodes == (GridW + 1) * (GridH + 1)
nodes == [ n \in 1..NumNodes |-> [ x |-> (n - 1) % (GridW + 1), y |-> (n - 1) \div (GridW + 1) ] ]
NodeAt(p) == p[2] * (GridW + 1) + p[1] + 1

Aligned(n1, n2) ==
  LET dx == nodes[n2].x - nodes[n1].x
      dy == nodes[n2].y - nodes[n1].y
  IN dx = 0 \/ dy = 0 \/ Abs(dx) = Abs(dy)

\* explicit edge polylines: a U that leaves the west column and comes back,
\* a V of two diagonals, an L that ends on the line between the columns, and
\* a hook that touches the east column at a point before it enters it
explicitGeometries ==
  { << << 0, 0 >>, << 2, 0 >>, << 2, 1 >>, << 0, 1 >> >>,
    << << 0, 0 >>, << 1, 1 >>, << 2, 0 >> >>,
    << << 0, 0 >>, << 1, 0 >>, << 1, 1 >> >>,
    << << 1, 1 >>, << 0, 0 >>, << 2, 0 >> >> }

\* graph.edges(keys=True, data=True): (u, v, data).  data either has a
\* 'geometry' entry or not; without one the edge is the straight line from
\* node u to node v (u = v is a self-loop).  The straight edges are those
\* that start on the south row (the lattice is its own mirror image).
GraphEdges ==
  { e \in { [ u |-> n1, v |-> n2, data |-> [ has_geometry |-> FALSE, geometry |-> LineString(<< >>) ] ] :
      n1 \in 1..NumNodes, n2 \in 1..NumNodes } : e.u <= e.v /\ nodes[e.u].y = 0 /\ Aligned(e.u, e.v) }
  \cup
  { [ u |-> NodeAt(g[1]), v |-> NodeAt(g[Len(g)]),
      data |-> [ has_geometry |-> TRUE, geometry |-> LineString(g) ] ] : g \in explicitGeometries }

\* the loop variables before the first iteration
NoEdge == [ u |-> 0, v |-> 0, data |-> [ has_geometry |-> FALSE, geometry |-> LineString(<< >>) ] ]

\* a row of wards_gdf: ward name, LAD name, polygon
WardRow(name, lad, cols, valid) ==
  [ WD23NM |-> name, LAD23NM |-> lad,
    geometry |-> Polygon({ c \in Cells : c[1] \in cols }, valid) ]

\* ward tables: ward A alone on the west column (the east column is outside
\* every ward); A west and B east, meeting on the line x = 1; A on both
\* columns with B overlapping it on the east one; A west and B east with
\* one of the two polygons invalid
AdjacentWards ==
  << WardRow("A", "Brent", { 0 }, TRUE), WardRow("B", "Harrow", { 1 }, TRUE) >>
WardTables ==
  { << WardRow("A", "Brent", { 0 }, TRUE) >>,
    AdjacentWards,
    << WardRow("A", "Brent", { 0, 1 }, TRUE), WardRow("B", "Harrow", { 1 }, TRUE) >>,
    << WardRow("A", "Brent", { 0 }, FALSE), WardRow("B", "Harrow", { 1 }, TRUE) >>,
    << WardRow("A", "Brent", { 0 }, TRUE), WardRow("B", "Harrow", { 1 }, FALSE) >> }

\* postcodes_gdf: one postcode on every lattice point; the codes descend
\* along the table, and the first two rows carry the same code.  Codes are
\* numbers ordered as the strings they stand for.
PostcodeRows ==
  [ n \in 1..NumNodes |->
      [ PCDS |-> IF n = 1 THEN NumNodes - 1 ELSE NumNodes + 1 - n,
        geometry |-> << nodes[n].x, nodes[n].y >> ] ]

\* None, an empty table, or the table above
PostcodeTables ==
  { [ is_none |-> TRUE, rows |-> << >> ],
    [ is_none |-> FALSE, rows |-> << >> ],
    [ is_none |-> FALSE, rows |-> PostcodeRows ] }

BufferMeters == { k * MetersPerDegree : k \in 0..MaxBufferUnits }

\* ----------------------------------------------------------------- state
VARIABLES
  wards_gdf,      \* argument: the ward table
  postcodes_gdf,  \* argument: the postcode table or None
  buffer_meters,  \* argument
  segments,       \* the output list
  segment_id,     \* the counter
  processed,      \* edges processed so far
  edge,           \* loop variables u, v, data: the edge taken last
  warnings,       \* number of "Failed to split segment" lines printed
  returned        \* graph_to_segments has returned segments

vars == << wards_gdf, postcodes_gdf, buffer_meters, segments, segment_id,
           processed, edge, warnings, returned >>

\* ---------------------------------------------------- graph_to_segments
ward_name_col(row) == row.WD23NM
lad_name_col(row) == row.LAD23NM

\* the ratio taken upside down
buffer_degrees_inverse(meters) == IF meters = 0 THEN 0 ELSE MetersPerDegree \div meters

buffer_degrees(meters) == meters \div MetersPerDegree

HasPostcodeTree(pgdf) == ~ pgdf.is_none /\ Len(pgdf.rows) > 0
postcode_points(pgdf) == [ i \in DOMAIN pgdf.rows |-> pgdf.rows[i].geometry ]
postcode_codes(pgdf) == [ i \in DOMAIN pgdf.rows |-> pgdf.rows[i].PCDS ]
postcode_tree(pgdf) == STRtree(postcode_points(pgdf))

find_postcodes_for_geometry(geom, pgdf, meters) ==
  IF ~ HasPostcodeTree(pgdf) THEN << >>
  ELSE LET buffered == Buffer(geom, buffer_degrees(meters))
           candidate_indices == TreeQuery(postcode_tree(pgdf), buffered)
       IN SortedSeq({ postcode_codes(pgdf)[i] : i \in candidate_indices })

\* the geometry of an edge: data['geometry'], else the two-point line
EdgeGeometry(e) ==
  IF e.data.has_geometry THEN e.data.geometry
  ELSE LineString(<< << nodes[e.u].x, nodes[e.u].y >>, << nodes[e.v].x, nodes[e.v].y >> >>)

\* wards_gdf[wards_gdf.intersects(geometry)]
IntersectingWards(wgdf, geometry) ==
  SelectSeq(wgdf, LAMBDA row : Intersects(row.geometry, geometry))

SegmentId(sid) == << "segment_", sid >>

\* the feature dict (the properties osm_id, name and highway copy edge tags
\* and are left out)
Feature(sid, row, postcodes, line) ==
  [ type |-> "Feature",
    properties |-> [ id |-> SegmentId(sid), color |-> "#FF0000",
                     lad |-> lad_name_col(row), ward |-> ward_name_col(row),
                     postcodes |-> postcodes ],
    geometry |-> [ type |-> "LineString", coordinates |-> line.coords ] ]

\* the same without the increment of the counter
EmitSameId(st, row, postcodes, line) ==
  [ st EXCEPT !.segments = Append(@, Feature(st.segment_id, row, postcodes, line)) ]

\* segments.append(segment); segment_id += 1
Emit(st, row, postcodes, line) ==
  [ st EXCEPT !.segments = Append(@, Feature(st.segment_id, row, postcodes, line)),
              !.segment_id = @ + 1 ]

\* Python's None
None == "None"

\* the other policy: keep the edge once, with a null ward
NoWardKeep(geometry, cfg, st) ==
  Emit(st, [ WD23NM |-> None, LAD23NM |-> None ], << >>, geometry)

\* len(intersecting_wards) == 0: pass
NoWard(geometry, cfg, st) == st

\* the same with the straight line between the ends of the geometry
OneWardEnds(geometry, row, cfg, st) ==
  Emit(st, row, find_postcodes_for_geometry(geometry, cfg.pgdf, cfg.meters),
       LineString(<< geometry.coords[1], geometry.coords[Len(geometry.coords)] >>))

\* len(intersecting_wards) == 1: the whole edge goes to that ward
OneWard(geometry, row, cfg, st) ==
  Emit(st, row, find_postcodes_for_geometry(geometry, cfg.pgdf, cfg.meters), geometry)

\* lines_to_add for one intersection result; << >> stands for "continue"
LinesToAdd(intersection) ==
  IF intersection.is_empty THEN << >>
  ELSE IF intersection.geom_type = "LineString" THEN << intersection.geoms[1] >>
  ELSE IF intersection.geom_type = "MultiLineString" THEN intersection.geoms
  ELSE << >>

RECURSIVE AddLines(_, _, _, _)
\* for line in lines_to_add: append one feature per line of positive length
AddLines(lines, row, cfg, st) ==
  IF lines = << >> THEN st
  ELSE LET line == Head(lines)
           st1 == IF PositiveLength(line)
                  THEN Emit(st, row, find_postcodes_for_geometry(line, cfg.pgdf, cfg.meters), line)
                  ELSE st
       IN AddLines(Tail(lines), row, cfg, st1)

\* except Exception: print the warning and continue with the next ward
OnException(st) == [ st EXCEPT !.warnings = @ + 1 ]

\* geometry.intersection(ward_geom) raises
Raises(geometry, ward_geom) == ~ ward_geom.is_valid

RECURSIVE SplitWardsBreak(_, _, _, _, _)
\* the same with the exception caught outside the loop over the wards
SplitWardsBreak(geometry, rows, k, cfg, st) ==
  IF k > Len(rows) THEN st
  ELSE IF Raises(geometry, rows[k].geometry) THEN OnException(st)
  ELSE SplitWardsBreak(geometry, rows, k + 1, cfg,
         AddLines(LinesToAdd(Intersection(geometry, rows[k].geometry)), rows[k], cfg, st))

RECURSIVE SplitWards(_, _, _, _, _)
\* for _, ward in intersecting_wards.iterrows(), from the k-th row on
SplitWards(geometry, rows, k, cfg, st) ==
  IF k > Len(rows) THEN st
  ELSE LET st1 == IF Raises(geometry, rows[k].geometry)
                  THEN OnException(st)
                  ELSE AddLines(LinesToAdd(Intersection(geometry, rows[k].geometry)),
                                rows[k], cfg, st)
       IN SplitWards(geometry, rows, k + 1, cfg, st1)

\* the body of the loop over graph.edges for edge e
LoopBody(e, wgdf, cfg, st) ==
  LET geometry == EdgeGeometry(e)
      intersecting_wards == IntersectingWards(wgdf, geometry)
      st1 == IF Len(intersecting_wards) = 0 THEN NoWard(geometry, cfg, st)
             ELSE IF Len(intersecting_wards) = 1
             THEN OneWard(geometry, intersecting_wards[1], cfg, st)
             ELSE SplitWards(geometry, intersecting_wards, 1, cfg, st)
  IN [ st1 EXCEPT !.processed = @ + 1 ]

NumWards(e) == Len(IntersectingWards(wards_gdf, EdgeGeometry(e)))

Config == [ pgdf |-> postcodes_gdf, meters |-> buffer_meters ]
State ==
  [ segments |-> segments, segment_id |-> segment_id, warnings |-> warnings,
    processed |-> processed ]

\* The runs start either without a postcode index (postcodes_gdf None or
\* empty; buffer_meters is then never read) on any ward table, or with the
\* index, any buffer, and the two adjacent wards.
Init ==
  /\ wards_gdf \in WardTables
  /\ postcodes_gdf \in PostcodeTables
  /\ buffer_meters \in BufferMeters
  /\ HasPostcodeTree(postcodes_gdf) => wards_gdf = AdjacentWards
  /\ ~ HasPostcodeTree(postcodes_gdf) => buffer_meters = 0
  /\ segments = << >>
  /\ segment_id = 0
  /\ processed = 0
  /\ edge = NoEdge
  /\ warnings = 0
  /\ returned = FALSE

Iterate(e) ==
  \E st \in { LoopBody(e, wards_gdf, Config, State) } :
     /\ segments' = st.segments
     /\ segment_id' = st.segment_id
     /\ warnings' = st.warnings
     /\ processed' = st.processed
     /\ edge' = e
     /\ UNCHANGED << wards_gdf, postcodes_gdf, buffer_meters, returned >>

\* an iteration for an edge that intersects no ward
SkipEdge ==
  /\ ~ returned /\ processed < MaxEdges
  /\ \E e \in GraphEdges : NumWards(e) = 0 /\ Iterate(e)

\* an iteration for an edge that intersects exactly one ward
WholeEdge ==
  /\ ~ returned /\ processed < MaxEdges
  /\ \E e \in GraphEdges : NumWards(e) = 1 /\ Iterate(e)

\* an iteration for an edge that intersects several wards
SplitEdge ==
  /\ ~ returned /\ processed < MaxEdges
  /\ \E e \in GraphEdges : NumWards(e) > 1 /\ Iterate(e)

\* the loop is over: return segments
Return ==
  /\ ~ returned
  /\ returned' = TRUE
  /\ UNCHANGED << wards_gdf, postcodes_gdf, buffer_meters, segments, segment_id,
                  processed, edge, warnings >>

Next == SkipEdge \/ WholeEdge \/ SplitEdge \/ Return

Spec == Init /\ [][Next]_vars

TypeOK ==
  /\ segment_id \in Nat
  /\ processed \in 0..MaxEdges
  /\ warnings \in Nat
  /\ returned \in BOOLEAN

\* ------------------------------------------------- vocabulary of the claims
FeatureLine(f) == LineString(f.geometry.coordinates)

\* the cells of the ward(s) of that name
WardCells(name) ==
  UNION { wards_gdf[i].geometry.cells : i \in { j \in DOMAIN wards_gdf : wards_gdf[j].WD23NM = name } }

AllWardCells == UNION { wards_gdf[i].geometry.cells : i \in DOMAIN wards_gdf }

\* no intersection raises in this run
AllWardsValid == \A i \in DOMAIN wards_gdf : wards_gdf[i].geometry.is_valid

\* the wards share at most boundary points or lines
WardsDoNotOverlap ==
  \A i, j \in DOMAIN wards_gdf :
    i # j => wards_gdf[i].geometry.cells \cap wards_gdf[j].geometry.cells = {}

\* the step is one iteration of the loop; edge' is the edge it took
Iterated == processed' = processed + 1

\* what the step appended to the output
Appended == SubSeq(segments', Len(segments) + 1, Len(segments'))

\* the atoms of edge e that lie in some ward
AtomsInWards(e) == { a \in Atoms(EdgeGeometry(e).coords) : AtomInCells(a, AllWardCells) }

IsDiagonal(a) == \A p \in a : \A q \in a : p # q => (p[1] # q[1] /\ p[2] # q[2])

\* total length of a set of atoms, as ax + dg * sqrt(2)
AtomsLength(S) ==
  [ ax |-> Cardinality({ a \in S : ~ IsDiagonal(a) }),
    dg |-> Cardinality({ a \in S : IsDiagonal(a) }) ]

RECURSIVE SumLengths(_)
\* combined length of a list of features
SumLengths(fs) ==
  IF fs = << >> THEN [ ax |-> 0, dg |-> 0 ]
  ELSE LET l == LineLength(FeatureLine(Head(fs)))
           r == SumLengths(Tail(fs))
       IN [ ax |-> l.ax + r.ax, dg |-> l.dg + r.dg ]

\* twice the squared distance from lattice point p to a line: the nearest
\* point of an atom is one of its ends, except on a diagonal atom whose
\* midpoint is nearest
TwiceDistSq(p, line) ==
  LET d == Densify(line.coords)
      toPoint(q) == 2 * ((p[1] - q[1]) * (p[1] - q[1]) + (p[2] - q[2]) * (p[2] - q[2]))
      toAtom(k) ==
        LET a == d[k]
            b == d[k + 1]
            num == (p[1] - a[1]) * (b[1] - a[1]) + (p[2] - a[2]) * (b[2] - a[2])
        IN IF a[1] # b[1] /\ a[2] # b[2] /\ num = 1 THEN toPoint(a) - 1
           ELSE Min(toPoint(a), toPoint(b))
  IN SetMin({ toPoint(d[k]) : k \in DOMAIN d } \cup { toAtom(k) : k \in 1..(Len(d) - 1) })

\* p is within r degrees of the line
WithinDistance(p, line, r) == TwiceDistSq(p, line) <= 2 * r * r

\* --------------------------------------------------------------- claims

\* C1: every feature's geometry lies entirely within the polygon of the ward
\* named in its 'ward' property: none of its atoms is outside that ward.
C1_FeatureInsideItsWard ==
  \A i \in DOMAIN segments :
    \A a \in Atoms(segments[i].geometry.coordinates) :
      AtomInCells(a, WardCells(segments[i].properties.ward))

\* C2: for every edge that intersects at least one ward, the features the
\* loop emits for it cover exactly the part of the edge inside the wards:
\* nothing outside every ward is emitted, nothing inside one is lost.
\* (Stated for runs in which no intersection raises.)
C2_CoverageOfEdge ==
  [][ (Iterated /\ AllWardsValid /\ NumWards(edge') >= 1) =>
        UNION { Atoms(Appended[i].geometry.coordinates) : i \in DOMAIN Appended }
          = AtomsInWards(edge') ]_vars

\* C3: when the wards do not overlap, the features emitted for an edge that
\* touches two or more wards partition it: no two share an atom, their
\* lengths add up to the length of the edge inside the wards, and a
\* straight edge with a stretch in each of two wards gives exactly 2
\* features whose lengths add up to the edge's.
\* (Stated for runs in which no intersection raises.)
C3_PartitionOfEdge ==
  [][ (Iterated /\ AllWardsValid /\ WardsDoNotOverlap /\ NumWards(edge') >= 2) =>
        /\ \A i, j \in DOMAIN Appended :
             i # j => Atoms(Appended[i].geometry.coordinates)
                        \cap Atoms(Appended[j].geometry.coordinates) = {}
        /\ SumLengths(Appended) = AtomsLength(AtomsInWards(edge'))
        /\ (/\ NumWards(edge') = 2
            /\ Len(EdgeGeometry(edge').coords) = 2
            /\ \A i \in DOMAIN wards_gdf :
                 \E a \in Atoms(EdgeGeometry(edge').coords) :
                   AtomInCells(a, wards_gdf[i].geometry.cells)) =>
             /\ Len(Appended) = 2
             /\ SumLengths(Appended) = LineLength(EdgeGeometry(edge')) ]_vars

\* C5: no feature of the output has zero length.
C5_NoZeroLengthFeature ==
  \A i \in DOMAIN segments : PositiveLength(FeatureLine(segments[i]))

\* C7: with a postcode index, the 'postcodes' list of every feature is the
\* ascending duplicate-free list of the codes of exactly those postcode
\* points that lie within the buffer distance of the feature's geometry.
\* (Stated for the features of positive length.)
C7_PostcodesWithinBuffer ==
  HasPostcodeTree(postcodes_gdf) =>
    \A i \in { j \in DOMAIN segments : PositiveLength(FeatureLine(segments[j])) } :
      segments[i].properties.postcodes
        = SortedSeq({ postcodes_gdf.rows[n].PCDS :
                        n \in { m \in DOMAIN postcodes_gdf.rows :
                                  WithinDistance(postcodes_gdf.rows[m].geometry,
                                                 FeatureLine(segments[i]),
                                                 buffer_degrees(buffer_meters)) } })

C6_IdentifiersCountFeatures ==
  /\ segment_id = Len(segments)
  /\ \A i \in DOMAIN segments : segments[i].properties.id = << "segment_", i - 1 >>
  /\ \A i, j \in DOMAIN segments :
       i # j => segments[i].properties.id # segments[j].properties.id

\* three features and more are out, after an edge was dropped or a pair
\* skipped
C6_Witness ==
  /\ Len(segments) >= 3
  /\ warnings >= 1
  /\ processed = MaxEdges

\* C8: when an intersection raises, that edge/ward pair is skipped and
\* nothing else: the output before the edge is kept, the other wards of the
\* edge give the features they give without the failing ward, one warning
\* is printed per failing pair, the function has not returned, and the loop
\* can go on to the next edge and to the return.
C8_FailureSkipsOnePair ==
  /\ [][ (Iterated /\ warnings' > warnings) =>
           LET geometry == EdgeGeometry(edge')
               rows == IntersectingWards(wards_gdf, geometry)
               good == SelectSeq(rows, LAMBDA row : row.geometry.is_valid)
               expect == SplitWards(geometry, good, 1, Config, State)
           IN /\ SubSeq(segments', 1, Len(segments)) = segments
              /\ segments' = expect.segments
              /\ segment_id' = expect.segment_id
              /\ warnings' = warnings + (Len(rows) - Len(good))
              /\ ~ returned' ]_vars
  /\ [] ((warnings > 0 /\ ~ returned) =>
           /\ ENABLED Return
           /\ processed < MaxEdges => ENABLED (SkipEdge \/ WholeEdge \/ SplitEdge))

\* the function has returned after two edges that each raised on the first
\* ward and gave a feature for the second
C8_Witness ==
  /\ returned
  /\ warnings = 2
  /\ ~ wards_gdf[1].geometry.is_valid
  /\ Len(segments) >= 2
  /\ \A i \in DOMAIN segments : segments[i].properties.ward = "B"

\* the buffers a run is compared with
WiderBuffers == { k * MetersPerDegree : k \in 0..(MaxBufferUnits + 1) }

\* C9: for buffer distances b1 <= b2 the postcodes of a feature computed
\* with b1 are among those computed for it with b2: no smaller buffer gives
\* a postcode the run's list lacks, and the run's list lacks none under any
\* larger buffer.
C9_LargerBufferKeepsPostcodes ==
  HasPostcodeTree(postcodes_gdf) =>
    \A i \in DOMAIN segments :
      \A b \in WiderBuffers :
        LET other == Range(find_postcodes_for_geometry(FeatureLine(segments[i]), postcodes_gdf, b))
            mine == Range(segments[i].properties.postcodes)
        IN /\ b <= buffer_meters => other \subseteq mine
           /\ b >= buffer_meters => mine \subseteq other

\* a feature has postcodes, and a larger buffer gives it more
C9_Witness ==
  /\ HasPostcodeTree(postcodes_gdf)
  /\ \E i \in DOMAIN segments :
       /\ segments[i].properties.postcodes # << >>
       /\ \E b \in WiderBuffers :
            /\ b > buffer_meters
            /\ Range(find_postcodes_for_geometry(FeatureLine(segments[i]), postcodes_gdf, b))
                 # Range(segments[i].properties.postcodes)

\* C10: an edge that intersects no ward adds nothing to the output and
\* leaves the counter alone, and no feature has a null ward or district.
C10_UnmatchedEdgeDropped ==
  /\ [][ (Iterated /\ NumWards(edge') = 0) =>
           (segments' = segments /\ segment_id' = segment_id) ]_vars
  /\ [] (\A i \in DOMAIN segments :
           /\ segments[i].properties.ward # None
           /\ segments[i].properties.lad # None)

\* the second edge of the run met no ward and the output still is the one
\* feature of the first
C10_Witness ==
  /\ processed = 2
  /\ NumWards(edge) = 0
  /\ Len(segments) = 1
  /\ segment_id = 1

====
